---- MODULE Spec2Model ----
(***************************************************************************)
(* A model of soar_utils.py: the working-memory shadow store of            *)
(* SoarEnvironment (add_wme / del_wme), the command intake                 *)
(* (parse_output_commands), the output-phase callback                      *)
(* (SoarEnvironment.update), the Ticker environment, the ParameterSpace    *)
(* enumeration and the experiment runner (SoarExperiment).                 *)
(***************************************************************************)
EXTENDS Integers, Sequences, FiniteSets, TLC

VARIABLES
    wmes,        \* SoarEnvironment.wmes: parent -> attr -> child -> handle(s)
    createLog,   \* external creates so far; createLog[h] is the triple of handle h
    destroyLog,  \* handles passed to the external DestroyWME, in call order
    extLive,     \* handles of elements that exist in the external tree
    lastOp,      \* the last add_wme / del_wme call: arguments and outcome
    olExists,    \* the agent has an output link (Agent.output_link is not None)
    olChildren,  \* time tags of the output link's children, in child-index order
    tagsIssued,  \* time tags the engine has handed out so far
    processed,   \* SoarEnvironment.processed_commands
    lastReturned, \* the commands the last parse_output_commands returned
    returnedEver, \* every command an earlier parse_output_commands returned
    addedSince,  \* children the engine added since the last parse_output_commands
    intakeOp,    \* the last step of the intake: "add", "remove" or "parse"
    io_initialized, \* SoarEnvironment.io_initialized
    invocations, \* output-phase events delivered to SoarEnvironment.update
    callLog,     \* the calls update made: invocation, callee, outcome
    parameter_space, \* ParameterSpace.parameter_space: entries in insertion order
    filters,     \* ParameterSpace.filters
    dependent_functions, \* ParameterSpace.dependent_functions, in insertion order
    perms,       \* what the last permutations() yielded, in order
    psOp,        \* the last call on the ParameterSpace
    environment_class, \* SoarExperiment.environment_class: its required arguments
    reporters,   \* SoarExperiment.reporters: the reporter names, in dict order
    runState,    \* where run_with is: "idle", "sweeping", "done" or "failed"
    sweeps,      \* calls of run_with so far
    report_ordering, \* the report_ordering run_with computed (line 377)
    pending,     \* the configurations the loop of line 378 has yet to take
    rows,        \* the report rows printed in this sweep, each as printed
    lastRun,     \* the last pass of the loop: configuration, events, error
    kernelsLive, \* kernels created and not shut down
    agentsLive,  \* agents created and not destroyed
    overridden,  \* the names the calls of run_with so far were given values for
    time,        \* Ticker.time
    nodes,       \* the command nodes the engine has made: nodes[tag] is name and arguments
    statuses     \* statuses[tag]: the status children attached to the node, in order

storeVars == <<wmes, createLog, destroyLog, extLive, lastOp>>

intakeVars == <<olExists, olChildren, tagsIssued, processed, lastReturned,
                returnedEver, addedSince, intakeOp>>

updateVars == <<io_initialized, invocations, callLog>>

spaceVars == <<parameter_space, filters, dependent_functions, perms, psOp>>

runVars == <<environment_class, reporters, runState, sweeps, report_ordering,
             pending, rows, lastRun, kernelsLive, agentsLive, overridden>>

tickerVars == <<time, nodes, statuses>>

vars == <<storeVars, intakeVars, updateVars, spaceVars, runVars, tickerVars>>

\* ------------------------------------------------------------------ bounds

\* external creates modelled in one run of the store
MaxCreates == 2

\* command nodes the engine puts on the output link in one run
MaxTags == 3

\* output-phase events the engine delivers to one environment
MaxInvocations == 5

\* calls of run_with on one experiment
MaxSweeps == 2

\* output phases in one run of the agent
MaxPhases == 2

\* output-phase events the engine delivers to one Ticker
MaxTicks == 3

\* command nodes the agent puts on the output link of one Ticker
MaxCommands == 2

\* --------------------------------------------------------- shadow store

\* identifiers used as parents (the input link and one further identifier)
Parents == {"I1", "I2"}

Attrs == {"time", "x"}

\* the (parent, attribute) slots the calls are made on
Slots == {<<"I1", "time">>, <<"I1", "x">>, <<"I2", "x">>}

\* child=None (line 239): the key of the identifier set
None == <<>>

\* a hashable value of a kind create_wme does not support (e.g. a tuple)
Unsupported == <<0, 0>>

\* scalar child values are wrapped, so that None is none of them
ScalarChildren == {<<0>>}

Children == {None} \cup ScalarChildren \cup {Unsupported}

\* create_wme raises TypeError for every value kind it does not know: None
\* and a (wrapped) scalar are known
create_wme_supported(c) == c = None \/ Len(c) = 1

EmptyDict == <<>>

DictSet(d, k, v) == [x \in (DOMAIN d) \cup {k} |-> IF x = k THEN v ELSE d[x]]

DictDel(d, k) == [x \in (DOMAIN d) \ {k} |-> d[x]]

\* the handles the shadow store tracks
Tracked(w) ==
    UNION { UNION { UNION { IF c = None THEN w[p][a][c] ELSE {w[p][a][c]}
                            : c \in DOMAIN w[p][a] }
                    : a \in DOMAIN w[p] }
            : p \in DOMAIN w }

\* lines 240-243: the parent map and the attribute map are created on demand
add_wme_prepare(w, p, a) ==
    LET w1 == IF p \notin DOMAIN w THEN DictSet(w, p, EmptyDict) ELSE w
    IN  IF a \notin DOMAIN w1[p]
        THEN DictSet(w1, p, DictSet(w1[p], a, EmptyDict))
        ELSE w1

\* lines 244-252: the store after the external create returned handle h
add_wme_store(w, p, a, c, h) ==
    LET w2 == add_wme_prepare(w, p, a)
        slot == IF c = None
                THEN {} \cup {h}      \* a fresh set(), then .add(new_wme)
                ELSE h
    IN  DictSet(w2, p, DictSet(w2[p], a, DictSet(w2[p][a], c, slot)))

\* add_wme as a whole: the store, the result and whether a create was issued
add_wme(w, p, a, c, h) ==
    IF create_wme_supported(c)
    THEN [store |-> add_wme_store(w, p, a, c, h), result |-> "wme", created |-> TRUE]
    ELSE [store |-> add_wme_prepare(w, p, a), result |-> "TypeError", created |-> FALSE]

\* line 230: the triple is unknown to the shadow store
del_wme_unknown(w, p, a, c) ==
    (p \notin DOMAIN w) \/ (a \notin DOMAIN w[p]) \/ (c \notin DOMAIN w[p][a])

\* lines 233-237: drop the entry, then the attribute map and the parent map
\* when they became empty
del_wme_prune(w, p, a, c) ==
    LET w1 == DictSet(w, p, DictSet(w[p], a, DictDel(w[p][a], c)))
        w2 == IF Cardinality(DOMAIN w1[p][a]) = 0
              THEN DictSet(w1, p, DictDel(w1[p], a))
              ELSE w1
    IN  IF Cardinality(DOMAIN w2[p]) = 0 THEN DictDel(w2, p) ELSE w2

\* del_wme with the entry kept after the destroy (line 233 forgotten)
del_wme_keeps_entry(w, p, a, c) ==
    IF del_wme_unknown(w, p, a, c)
    THEN [store |-> w, result |-> "False", destroyed |-> <<>>]
    ELSE IF c = None
    THEN [store |-> w, result |-> "AssertionError", destroyed |-> <<>>]
    ELSE [store |-> w, result |-> "True", destroyed |-> <<w[p][a][c]>>]

\* del_wme with the child test missing from the guard: the lookup of an
\* untracked child under a tracked attribute raises KeyError
del_wme_no_child_test(w, p, a, c) ==
    IF (p \notin DOMAIN w) \/ (a \notin DOMAIN w[p])
    THEN [store |-> w, result |-> "False", destroyed |-> <<>>]
    ELSE IF c \notin DOMAIN w[p][a]
    THEN [store |-> w, result |-> "KeyError", destroyed |-> <<>>]
    ELSE IF c = None
    THEN [store |-> w, result |-> "AssertionError", destroyed |-> <<>>]
    ELSE [store |-> del_wme_prune(w, p, a, c), result |-> "True",
          destroyed |-> <<w[p][a][c]>>]

\* del_wme as a whole: the store, the result and the handles passed to the
\* external destroy.  Under child=None the slot holds a set, which
\* Agent.destroy_wme rejects (line 130) before it reaches DestroyWME.
del_wme(w, p, a, c) ==
    IF del_wme_unknown(w, p, a, c)
    THEN [store |-> w, result |-> "False", destroyed |-> <<>>]
    ELSE IF c = None
    THEN [store |-> w, result |-> "AssertionError", destroyed |-> <<>>]
    ELSE [store |-> del_wme_prune(w, p, a, c), result |-> "True",
          destroyed |-> <<w[p][a][c]>>]

NoOp ==
    [op |-> "none", p |-> "I1", a |-> "x", c |-> None, result |-> "none",
     destroyOk |-> TRUE]

\* SoarEnvironment.__init__: an empty store, nothing created or destroyed
StoreInit ==
    /\ wmes = EmptyDict
    /\ createLog = <<>>
    /\ destroyLog = <<>>
    /\ extLive = {}
    /\ lastOp = NoOp

\* SoarEnvironment.__init__: no command processed; the agent has not put
\* anything on the output link yet
IntakeInit ==
    /\ olExists = FALSE
    /\ olChildren = <<>>
    /\ tagsIssued = 0
    /\ processed = {}
    /\ lastReturned = {}
    /\ returnedEver = {}
    /\ addedSince = {}
    /\ intakeOp = "none"

\* SoarEnvironment.__init__: io_initialized = False, no event delivered yet
UpdateInit ==
    /\ io_initialized = FALSE
    /\ invocations = 0
    /\ callLog = <<>>

\* no ParameterSpace in use: an empty space, nothing enumerated
SpaceIdle ==
    /\ parameter_space = <<>>
    /\ filters = {}
    /\ dependent_functions = <<>>
    /\ perms = <<>>
    /\ psOp = "none"

\* what the last pass of the loop of run_with left, before any pass
NoRun == [cfg |-> <<>>, log |-> <<>>, error |-> "none", phases |-> 0]

\* no SoarExperiment in use: nothing run, no session
RunIdle ==
    /\ environment_class = <<>>
    /\ reporters = <<>>
    /\ runState = "idle"
    /\ sweeps = 0
    /\ report_ordering = <<>>
    /\ pending = <<>>
    /\ rows = <<>>
    /\ lastRun = NoRun
    /\ kernelsLive = 0
    /\ agentsLive = 0
    /\ overridden = {}

\* no Ticker in use
TickerIdle ==
    /\ time = 0
    /\ nodes = <<>>
    /\ statuses = <<>>

InitStore == StoreInit /\ IntakeInit /\ UpdateInit /\ SpaceIdle /\ RunIdle /\ TickerIdle

\* SoarEnvironment.add_wme(parent, attr, child)
AddWme(p, a, c) ==
    LET h == Len(createLog) + 1
        r == add_wme(wmes, p, a, c, h)
    IN  /\ r.created => h <= MaxCreates
        /\ wmes' = r.store
        /\ createLog' = IF r.created THEN Append(createLog, <<p, a, c>>) ELSE createLog
        /\ extLive' = IF r.created THEN extLive \cup {h} ELSE extLive
        /\ lastOp' = [op |-> "add", p |-> p, a |-> a, c |-> c, result |-> r.result,
                      destroyOk |-> TRUE]
        /\ UNCHANGED <<destroyLog, intakeVars, updateVars, spaceVars, runVars, tickerVars>>

\* SoarEnvironment.del_wme(parent, attr, child); ok is what the external
\* DestroyWME reports (Agent.destroy_wme returns it, del_wme does not read it)
DelWme(p, a, c, ok) ==
    LET r == del_wme(wmes, p, a, c)
    IN  /\ (Len(r.destroyed) = 0) => ok
        /\ wmes' = r.store
        /\ destroyLog' = destroyLog \o r.destroyed
        /\ extLive' = IF ok THEN extLive \ {r.destroyed[i] : i \in 1..Len(r.destroyed)}
                      ELSE extLive
        /\ lastOp' = [op |-> "del", p |-> p, a |-> a, c |-> c, result |-> r.result,
                      destroyOk |-> ok]
        /\ UNCHANGED <<createLog, intakeVars, updateVars, spaceVars, runVars, tickerVars>>

NextStore ==
    \/ \E s \in Slots, c \in Children : AddWme(s[1], s[2], c)
    \/ \E s \in Slots, c \in Children, ok \in BOOLEAN : DelWme(s[1], s[2], c, ok)

SpecStore == InitStore /\ [][NextStore]_vars

\* -------------------------------------------------------- command intake

SeqToSet(q) == {q[i] : i \in 1 .. Len(q)}

SeqRemoveAt(q, i) == SubSeq(q, 1, i - 1) \o SubSeq(q, i + 1, Len(q))

\* the loop of lines 257-260 with line 260 forgotten: a command is returned
\* but its tag is not marked processed
RECURSIVE parse_loop_no_mark(_, _, _)
parse_loop_no_mark(kids, commands, proc) ==
    IF kids = <<>>
    THEN [commands |-> commands, processed |-> proc]
    ELSE IF Head(kids) \notin proc
         THEN parse_loop_no_mark(Tail(kids), commands \cup {Head(kids)}, proc)
         ELSE parse_loop_no_mark(Tail(kids), commands, proc)

\* lines 257-260: every child whose time tag is not in processed_commands is
\* wrapped as a command and its tag is marked processed
RECURSIVE parse_loop(_, _, _)
parse_loop(kids, commands, proc) ==
    IF kids = <<>>
    THEN [commands |-> commands, processed |-> proc]
    ELSE IF Head(kids) \notin proc
         THEN parse_loop(Tail(kids), commands \cup {Head(kids)}, proc \cup {Head(kids)})
         ELSE parse_loop(Tail(kids), commands, proc)

\* parse_output_commands: the commands returned and processed_commands after
parse_output_commands(exists, kids, proc) ==
    IF exists
    THEN parse_loop(kids, {}, proc)
    ELSE [commands |-> {}, processed |-> proc]

\* the engine attaches a new command node, with a fresh time tag, to the
\* output link (which exists from the first attachment on)
ExtAddCommand ==
    /\ tagsIssued < MaxTags
    /\ tagsIssued' = tagsIssued + 1
    /\ olExists' = TRUE
    /\ olChildren' = Append(olChildren, tagsIssued + 1)
    /\ addedSince' = addedSince \cup {tagsIssued + 1}
    /\ intakeOp' = "add"
    /\ UNCHANGED <<processed, lastReturned, returnedEver, storeVars, updateVars, spaceVars, runVars, tickerVars>>

\* the engine removes the i-th child of the output link
ExtRemoveCommand(i) ==
    /\ olChildren' = SeqRemoveAt(olChildren, i)
    /\ addedSince' = addedSince \ {olChildren[i]}
    /\ intakeOp' = "remove"
    /\ UNCHANGED <<olExists, tagsIssued, processed, lastReturned, returnedEver, storeVars, updateVars, spaceVars, runVars, tickerVars>>

\* SoarEnvironment.parse_output_commands()
ParseOutputCommands ==
    LET r == parse_output_commands(olExists, olChildren, processed)
    IN  /\ processed' = r.processed
        /\ lastReturned' = r.commands
        /\ returnedEver' = returnedEver \cup lastReturned
        /\ addedSince' = {}
        /\ intakeOp' = "parse"
        /\ UNCHANGED <<olExists, olChildren, tagsIssued, storeVars, updateVars, spaceVars, runVars, tickerVars>>

InitIntake == StoreInit /\ IntakeInit /\ UpdateInit /\ SpaceIdle /\ RunIdle /\ TickerIdle

NextIntake ==
    \/ ExtAddCommand
    \/ \E i \in 1 .. Len(olChildren) : ExtRemoveCommand(i)
    \/ ParseOutputCommands

SpecIntake == InitIntake /\ [][NextIntake]_vars

\* ---------------------------------------------------- claims: the intake

\* C7: a command node (time tag) is returned by at most one call of
\* parse_output_commands; a call with no child added since the previous call
\* returns the empty set; processed_commands only grows (so a node removed
\* after being drained is never returned again).
C7_DrainedAtMostOnce ==
    [][ /\ processed \subseteq processed'
        /\ intakeOp' = "parse" => lastReturned' \cap (returnedEver \cup lastReturned) = {}
        /\ (intakeOp' = "parse" /\ addedSince = {}) => lastReturned' = {}
      ]_vars

\* C7 witness: a parse has just returned a new command while an earlier
\* drained command is still on the output link and another drained command
\* was removed from it
C7_DrainAfterRemoval ==
    /\ intakeOp = "parse"
    /\ lastReturned # {}
    /\ \E t \in processed \ lastReturned : t \in SeqToSet(olChildren)
    /\ \E t \in processed \ lastReturned : t \notin SeqToSet(olChildren)

\* -------------------------------------------- the output-phase callback

\* what a call of one of the abstract hooks does: return or raise
HookOutcomes == {"ok", "raise"}

Call(inv, callee, out) == [inv |-> inv, call |-> callee, out |-> out]

\* update with line 266 forgotten: the flag is never set
update_forgets_flag(initialized, inv, initOut, updOut) ==
    LET first == IF ~initialized THEN <<Call(inv, "initialize_io", initOut)>> ELSE <<>>
    IN  IF ~initialized /\ initOut = "raise"
        THEN [io_initialized |-> initialized, calls |-> first]
        ELSE IF updOut = "raise"
        THEN [io_initialized |-> initialized,
              calls |-> first \o <<Call(inv, "update_io", updOut)>>]
        ELSE [io_initialized |-> initialized,
              calls |-> first \o <<Call(inv, "update_io", updOut),
                                   Call(inv, "Commit", "ok")>>]

\* SoarEnvironment.update (lines 263-268): the first invocation calls
\* initialize_io and sets the flag, every invocation calls update_io and then
\* Commit.  A hook that raises ends the invocation there: nothing is caught,
\* and the flag is set only after initialize_io returned.
update(initialized, inv, initOut, updOut) ==
    LET first == IF ~initialized THEN <<Call(inv, "initialize_io", initOut)>> ELSE <<>>
    IN  IF ~initialized /\ initOut = "raise"
        THEN [io_initialized |-> initialized, calls |-> first]
        ELSE IF updOut = "raise"
        THEN [io_initialized |-> TRUE,
              calls |-> first \o <<Call(inv, "update_io", updOut)>>]
        ELSE [io_initialized |-> TRUE,
              calls |-> first \o <<Call(inv, "update_io", updOut),
                                   Call(inv, "Commit", "ok")>>]

\* the engine completes an output phase and invokes the registered callback
\* (line 222); initOut and updOut are what the hooks do if they are called
Update(initOut, updOut) ==
    LET r == update(io_initialized, invocations + 1, initOut, updOut)
    IN  /\ invocations < MaxInvocations
        /\ invocations' = invocations + 1
        /\ io_initialized' = r.io_initialized
        /\ callLog' = callLog \o r.calls
        /\ UNCHANGED <<storeVars, intakeVars, spaceVars, runVars, tickerVars>>

InitUpdate == StoreInit /\ IntakeInit /\ UpdateInit /\ SpaceIdle /\ RunIdle /\ TickerIdle

NextUpdate == \E initOut \in HookOutcomes, updOut \in HookOutcomes : Update(initOut, updOut)

SpecUpdate == InitUpdate /\ [][NextUpdate]_vars

\* ------------------------------------------------------- ParameterSpace

\* parameter names as strings of code points: "a", "ab", "b"
Names == {<<1>>, <<1, 2>>, <<2>>}

\* the values a parameter is declared with: a scalar, or a tuple, list or
\* range of values, or a generator object (val is what it has yet to yield)
RawValues ==
    { [kind |-> "scalar", val |-> <<0>>],
      [kind |-> "tuple", val |-> <<0, 1>>],
      [kind |-> "list", val |-> <<1, 1>>],
      [kind |-> "list", val |-> <<>>],
      [kind |-> "range", val |-> <<0, 1, 2>>],
      [kind |-> "generator", val |-> <<0, 1>>] }

\* the caller's object after line 300 ran over it: tuple(v) runs a generator
\* to its end, every other value is left as it was
consumed(raw) ==
    IF raw.kind = "generator" THEN [kind |-> "generator", val |-> <<>>] ELSE raw

\* a scalar's val holds the scalar alone
ScalarOf(raw) == raw.val[1]

\* lines 297-302: a tuple stays, a list, range or generator becomes the tuple
\* of its items, anything else becomes a one-element tuple
repair_value(raw) ==
    IF raw.kind = "tuple"
    THEN raw
    ELSE IF raw.kind \in {"list", "range", "generator"}
    THEN [kind |-> "tuple", val |-> raw.val]
    ELSE [kind |-> "tuple", val |-> <<ScalarOf(raw)>>]

\* _repair_parameter_space: every entry of the space is repaired
repair_parameter_space(ps) ==
    [i \in 1 .. Len(ps) |->
        LET v == repair_value([kind |-> ps[i].kind, val |-> ps[i].val])
        IN  [name |-> ps[i].name, kind |-> v.kind, val |-> v.val]]

ps_keys(ps) == [i \in 1 .. Len(ps) |-> ps[i].name]

ps_index(keys, n) == CHOOSE i \in 1 .. Len(keys) : keys[i] = n

\* self.parameter_space[key]
get_parameter_values(ps, n) == ps[ps_index(ps_keys(ps), n)].val

\* NameSpace.update with one keyword: a known key keeps its place, a new key
\* is appended
ps_update(ps, n, raw) ==
    LET e == [name |-> n, kind |-> raw.kind, val |-> raw.val]
    IN  IF n \in SeqToSet(ps_keys(ps))
        THEN [i \in 1 .. Len(ps) |-> IF ps[i].name = n THEN e ELSE ps[i]]
        ELSE Append(ps, e)

\* fix_parameters with the two lines exchanged: the space is repaired first
\* and the new values are stored as they were given
fix_parameters_repair_first(ps, n, raw) == ps_update(repair_parameter_space(ps), n, raw)

\* ParameterSpace.fix_parameters (lines 330-332) with one keyword: the value
\* is stored, then the space is repaired
fix_parameters(ps, n, raw) == repair_parameter_space(ps_update(ps, n, raw))

\* len(v) is defined for the tuples the repair leaves (and for lists and
\* ranges), not for a bare scalar or a generator
sized(e) == e.kind \in {"tuple", "list", "range"}

\* ParameterSpace.variable_parameters (lines 311-313), in insertion order
variable_parameters(ps) ==
    ps_keys(SelectSeq(ps, LAMBDA e : sized(e) /\ Len(e.val) > 1))

\* ParameterSpace.constant_parameters (lines 317-319), in insertion order
constant_parameters(ps) ==
    ps_keys(SelectSeq(ps, LAMBDA e : sized(e) /\ Len(e.val) = 1))

\* ParameterSpace.dependent_parameters (lines 314-316)
dependent_parameters(deps) == [i \in 1 .. Len(deps) |-> deps[i].name]

\* the order of Python strings: code point by code point, a proper prefix first
LexLess(s, t) ==
    \E i \in 1 .. (Len(s) + 1) :
        /\ \A j \in 1 .. (i - 1) : j <= Len(t) /\ s[j] = t[j]
        /\ \/ i = Len(s) + 1 /\ i <= Len(t)
           \/ i <= Len(s) /\ i <= Len(t) /\ s[i] < t[i]

\* x put at its place in the sorted sequence q
Insert(x, q) ==
    LET k == Cardinality({i \in 1 .. Len(q) : LexLess(q[i], x)})
    IN  SubSeq(q, 1, k) \o <<x>> \o SubSeq(q, k + 1, Len(q))

\* permutations with the keys left in insertion order (sorted() forgotten)
insertion_order_keys(q) == q

\* sorted(self.parameter_space.keys()), line 334
RECURSIVE sort_rec(_)
sort_rec(q) == IF q = <<>> THEN <<>> ELSE Insert(Head(q), sort_rec(Tail(q)))

sorted_keys(q) == sort_rec(q)

\* itertools.product(*doms): nested loops, the last domain varying fastest
RECURSIVE product(_)
product(doms) ==
    IF doms = <<>>
    THEN << <<>> >>
    ELSE LET rest == product(Tail(doms))
             first == Head(doms)
             m == Len(rest)
         IN  [k \in 1 .. (Len(first) * m) |->
                 <<first[((k - 1) \div m) + 1]>> \o rest[((k - 1) % m) + 1]]

\* NameSpace(**dict(zip(keys, values))), line 336
zip_namespace(keys, values) ==
    [n \in SeqToSet(keys) |-> values[ps_index(keys, n)]]

\* the functions registered as dependent parameters: lambda p: len(vars(p))
\* and lambda p: 0
DependentFns == {"count", "zero"}

\* a string value is the sequence of its pieces: a character is its code
\* point, a placeholder {a} or {b} is minus the code of the name's letter
Str_1 == <<49>>

Str_a == <<-1>>

Str_aa == <<-1, -1>>

\* dependent functions that return a template string: lambda p: "{a}{a}"
\* and lambda p: "{a}"
TemplateFns == {"twice_a", "self_a"}

\* fn(parameters), line 338: the value is stored as the function returned it
dependent_value(fn, p) ==
    IF fn = "count" THEN Cardinality(DOMAIN p)
    ELSE IF fn = "twice_a" THEN Str_aa
    ELSE IF fn = "self_a" THEN Str_a
    ELSE 0

\* names given to dependent parameters: "a" (also a declared name) and "c"
DependentNames == {<<1>>, <<3>>}

\* the predicates registered as filters: lambda p: False and
\* lambda p: 0 in vars(p).values()
FilterFns == {"never", "has_zero"}

filter_value(fn, p) == IF fn = "never" THEN FALSE ELSE \E n \in DOMAIN p : p[n] = 0

\* lines 337-338: the dependent values are set in registration order
RECURSIVE apply_dependents(_, _)
apply_dependents(deps, p) ==
    IF deps = <<>>
    THEN p
    ELSE apply_dependents(Tail(deps),
                          DictSet(p, Head(deps).name, dependent_value(Head(deps).fn, p)))

passes_filters(fs, p) == \A f \in fs : filter_value(f, p)

\* permutations with the filters applied to the bare combination, before the
\* dependent values are set (lines 337-338 and 339 exchanged)
permutations_filters_first(ps, deps, fs) ==
    LET keys == sorted_keys(ps_keys(ps))
        values == product([i \in 1 .. Len(keys) |-> get_parameter_values(ps, keys[i])])
        bare == [k \in 1 .. Len(values) |-> zip_namespace(keys, values[k])]
        kept == SelectSeq(bare, LAMBDA p : passes_filters(fs, p))
    IN  [k \in 1 .. Len(kept) |-> apply_dependents(deps, kept[k])]

\* ParameterSpace.permutations (lines 333-340) as the sequence it yields
permutations(ps, deps, fs) ==
    LET keys == sorted_keys(ps_keys(ps))
        values == product([i \in 1 .. Len(keys) |-> get_parameter_values(ps, keys[i])])
        candidates == [k \in 1 .. Len(values) |->
                          apply_dependents(deps, zip_namespace(keys, values[k]))]
    IN  SelectSeq(candidates, LAMBDA p : passes_filters(fs, p))

\* sequences of distinct names: the keyword arguments of the constructor
RECURSIVE NameSeqs(_)
NameSeqs(S) ==
    {<<>>} \cup UNION { {<<n>> \o q : q \in NameSeqs(S \ {n})} : n \in S }

\* ParameterSpace.__init__ (lines 291-295): the declared parameters,
\* repaired; no filter, no dependent parameter
InitSpace ==
    /\ StoreInit /\ IntakeInit /\ UpdateInit /\ RunIdle /\ TickerIdle
    /\ \E names \in NameSeqs(Names) :
           \E raws \in [1 .. Len(names) -> RawValues] :
               parameter_space = repair_parameter_space(
                   [i \in 1 .. Len(names) |->
                       [name |-> names[i], kind |-> raws[i].kind, val |-> raws[i].val]])
    /\ filters = {}
    /\ dependent_functions = <<>>
    /\ perms = <<>>
    /\ psOp = "init"

\* list(self.permutations())
CallPermutations ==
    /\ perms' = permutations(parameter_space, dependent_functions, filters)
    /\ psOp' = "permutations"
    /\ UNCHANGED <<parameter_space, filters, dependent_functions,
                   storeVars, intakeVars, updateVars, runVars, tickerVars>>

\* ParameterSpace.add_filter(fn)
AddFilter(f) ==
    /\ filters' = filters \cup {f}
    /\ perms' = <<>>
    /\ psOp' = "add_filter"
    /\ UNCHANGED <<parameter_space, dependent_functions, storeVars, intakeVars, updateVars, runVars, tickerVars>>

\* ParameterSpace.add_dependent_parameter(name, fn)
AddDependentParameter(n, fn) ==
    /\ dependent_functions' =
           IF \E i \in 1 .. Len(dependent_functions) : dependent_functions[i].name = n
           THEN [i \in 1 .. Len(dependent_functions) |->
                    IF dependent_functions[i].name = n
                    THEN [name |-> n, fn |-> fn]
                    ELSE dependent_functions[i]]
           ELSE Append(dependent_functions, [name |-> n, fn |-> fn])
    /\ perms' = <<>>
    /\ psOp' = "add_dependent_parameter"
    /\ UNCHANGED <<parameter_space, filters, storeVars, intakeVars, updateVars, runVars, tickerVars>>

\* ParameterSpace.fix_parameters(name=raw)
FixParameters(n, raw) ==
    /\ parameter_space' = fix_parameters(parameter_space, n, raw)
    /\ perms' = <<>>
    /\ psOp' = "fix_parameters"
    /\ UNCHANGED <<filters, dependent_functions, storeVars, intakeVars, updateVars, runVars, tickerVars>>

NextSpace ==
    \/ CallPermutations
    \/ \E f \in FilterFns : AddFilter(f)
    \/ \E n \in DependentNames, fn \in DependentFns : AddDependentParameter(n, fn)
    \/ \E n \in Names, raw \in RawValues : FixParameters(n, raw)

SpecSpace == InitSpace /\ [][NextSpace]_vars

\* ------------------------------- ParameterSpace over template strings

\* the names the template strings refer to: "a" and "b"
TemplateNames == {<<1>>, <<2>>}

\* string values a parameter is declared with: "1", "{a}{a}" and "{a}"
TemplateRaws ==
    { [kind |-> "scalar", val |-> <<Str_1>>],
      [kind |-> "scalar", val |-> <<Str_aa>>],
      [kind |-> "scalar", val |-> <<Str_a>>] }

\* ParameterSpace.__init__ with string values
InitTemplate ==
    /\ StoreInit /\ IntakeInit /\ UpdateInit /\ RunIdle /\ TickerIdle
    /\ \E names \in NameSeqs(TemplateNames) :
           \E raws \in [1 .. Len(names) -> TemplateRaws] :
               parameter_space = repair_parameter_space(
                   [i \in 1 .. Len(names) |->
                       [name |-> names[i], kind |-> raws[i].kind, val |-> raws[i].val]])
    /\ filters = {}
    /\ dependent_functions = <<>>
    /\ perms = <<>>
    /\ psOp = "init"

NextTemplate ==
    \/ CallPermutations
    \/ \E n \in TemplateNames, fn \in TemplateFns : AddDependentParameter(n, fn)
    \/ \E n \in TemplateNames, raw \in TemplateRaws : FixParameters(n, raw)

SpecTemplate == InitTemplate /\ [][NextTemplate]_vars

\* ------------------------------------------------- the experiment runner

\* names, letter by letter (a = 1, ..., z = 26)
Name_a == <<1>>

Name_b == <<2>>

Name_c == <<3>>

Name_q == <<17>>

Name_r == <<18>>

Name_agent == <<1, 7, 5, 14, 20>>

Param(n, d) == [name |-> n, default |-> d]

\* the environment classes, each as the signature of its constructor without
\* self: (agent), (agent, a, b=0) and (agent, a, b)
EnvironmentClasses ==
    { <<Param(Name_agent, FALSE)>>,
      <<Param(Name_agent, FALSE), Param(Name_a, FALSE), Param(Name_b, TRUE)>>,
      <<Param(Name_agent, FALSE), Param(Name_a, FALSE), Param(Name_b, FALSE)>> }

\* positional_arguments (lines 559-560): the names of the parameters that
\* have no default
positional_arguments(sig) ==
    LET req == SelectSeq(sig, LAMBDA x : ~x.default)
    IN  [i \in 1 .. Len(req) |-> req[i].name]

\* the reporters an experiment is given, as their names in the order of the
\* dict; the last has the name of a parameter
ReporterSeqs == {<<>>, <<Name_r, Name_q>>, <<Name_a>>}

\* the spaces an experiment is given: (b=(0, 1), a=0), (a=range(3), b=0) and
\* (b=(0, 1))
RunSpaces ==
    { repair_parameter_space(<<[name |-> Name_b, kind |-> "tuple", val |-> <<0, 1>>],
                               [name |-> Name_a, kind |-> "scalar", val |-> <<0>>]>>),
      repair_parameter_space(<<[name |-> Name_a, kind |-> "range", val |-> <<0, 1, 2>>],
                               [name |-> Name_b, kind |-> "scalar", val |-> <<0>>]>>),
      repair_parameter_space(<<[name |-> Name_b, kind |-> "tuple", val |-> <<0, 1>>]>>) }

\* the keyword arguments run_with is called with: none, a=1 or agent=0
Updates ==
    { <<>>,
      <<[name |-> Name_a, raw |-> [kind |-> "scalar", val |-> <<1>>]]>>,
      <<[name |-> Name_agent, raw |-> [kind |-> "scalar", val |-> <<0>>]]>> }

\* fix_parameters(**updates), lines 330-332, keyword by keyword
RECURSIVE fix_all(_, _)
fix_all(ps, updates) ==
    IF updates = <<>>
    THEN repair_parameter_space(ps)
    ELSE fix_all(fix_parameters(ps, Head(updates).name, Head(updates).raw), Tail(updates))

\* the keys of a configuration in the order of its __dict__: the declared
\* names sorted (line 336), then the dependent names (line 338)
config_keys(ps, deps) ==
    LET declared == sorted_keys(ps_keys(ps))
    IN  declared \o SelectSeq(dependent_parameters(deps),
                              LAMBDA n : n \notin SeqToSet(declared))

\* a configuration as its (key, value) items in the order of its __dict__
items(p, keys) == [i \in 1 .. Len(keys) |-> <<keys[i], p[keys[i]]>>]

item_keys(its) == [i \in 1 .. Len(its) |-> its[i][1]]

\* d[k] = v on a dict kept as its items: a known key keeps its place
dict_set(its, k, v) ==
    IF k \in SeqToSet(item_keys(its))
    THEN [i \in 1 .. Len(its) |-> IF its[i][1] = k THEN <<k, v>> ELSE its[i]]
    ELSE Append(its, <<k, v>>)

\* line 377
compute_report_ordering(ps, deps, reps) ==
    sorted_keys(variable_parameters(ps)) \o sorted_keys(dependent_parameters(deps))
        \o sorted_keys(constant_parameters(ps)) \o sorted_keys(reps)

Ev(e, n) == [ev |-> e, n |-> n]

\* what can go wrong in one pass of run(): nothing, the kernel or the agent is
\* not created, the environment's constructor, a prerun procedure, the
\* formatting of a command or a reporter raises
Failures == {"none", "kernel", "agent", "environment", "prerun", "command", "reporter"}

\* SoarEnvironment.__init__ (lines 218-221): an empty shadow store, no
\* command processed, io not initialized
soar_environment_init ==
    [wmes |-> EmptyDict, processed_commands |-> {}, io_initialized |-> FALSE]

\* ParameterizedSoarEnvironment.__init__ with line 349 forgotten: the wrapped
\* instance's hook stays registered
parameterized_environment_keeps_hook(keys, sig, failEnv) ==
    LET needed == SeqToSet(positional_arguments(sig)) \ {Name_agent}
    IN  IF ~(needed \subseteq keys)
        THEN [log |-> <<Ev("register", 1)>>, error |-> "KeyError", hooks |-> <<1>>,
              envs |-> <<soar_environment_init>>]
        ELSE IF failEnv
        THEN [log |-> <<Ev("register", 1)>>, error |-> "Exception", hooks |-> <<1>>,
              envs |-> <<soar_environment_init>>]
        ELSE [log |-> <<Ev("register", 1), Ev("register", 2)>>,
              error |-> "none", hooks |-> <<1, 2>>,
              envs |-> <<soar_environment_init, soar_environment_init>>]

\* ParameterizedSoarEnvironment.__init__ (lines 344-349): the wrapper
\* registers its hook (line 222, hook 1), the arguments are read from the
\* configuration (line 351), the instance is built and registers its own hook
\* (hook 2), which is then unregistered
parameterized_environment(keys, sig, failEnv) ==
    LET needed == SeqToSet(positional_arguments(sig)) \ {Name_agent}
    IN  IF ~(needed \subseteq keys)
        THEN [log |-> <<Ev("register", 1)>>, error |-> "KeyError", hooks |-> <<1>>,
              envs |-> <<soar_environment_init>>]
        ELSE IF failEnv
        THEN [log |-> <<Ev("register", 1)>>, error |-> "Exception", hooks |-> <<1>>,
              envs |-> <<soar_environment_init>>]
        ELSE [log |-> <<Ev("register", 1), Ev("register", 2), Ev("unregister", 2)>>,
              error |-> "none", hooks |-> <<1>>,
              envs |-> <<soar_environment_init, soar_environment_init>>]

\* one output phase: every registered hook runs SoarEnvironment.update on its
\* environment (envs[1] is the wrapper, envs[2] the instance); the wrapper's
\* initialize_io and update_io call the instance's (lines 356, 358), the
\* instance's own hook calls them directly
RECURSIVE phase_events(_, _, _)
phase_events(hooks, envs, ph) ==
    IF hooks = <<>>
    THEN [log |-> <<>>, envs |-> envs]
    ELSE LET h == Head(hooks)
             u == update(envs[h].io_initialized, ph, "ok", "ok")
             rest == phase_events(Tail(hooks),
                                  [envs EXCEPT ![h].io_initialized = u.io_initialized], ph)
         IN  [log |-> [i \in 1 .. Len(u.calls) |-> Ev(u.calls[i].call, ph)] \o rest.log,
              envs |-> rest.envs]

\* agent.execute_command_line("run") with the given number of output phases
RECURSIVE run_events(_, _, _, _)
run_events(hooks, envs, ph, phases) ==
    IF ph > phases
    THEN <<>>
    ELSE LET r == phase_events(hooks, envs, ph)
         IN  r.log \o run_events(hooks, r.envs, ph + 1, phases)

\* what a reporter returns: the number of run commands the session has
\* executed when the reporter is called
reporter_value(log) == Cardinality({i \in 1 .. Len(log) : log[i].ev = "run"})

\* lines 399-400: the reporters are called in the order of the dict
RECURSIVE report_reporters(_, _, _)
report_reporters(report, reps, log) ==
    IF reps = <<>>
    THEN report
    ELSE report_reporters(dict_set(report, Head(reps), reporter_value(log)), Tail(reps), log)

\* the body with the reporters called before the commands and the run
run_body_reports_first(p, sig, reps, fail, phases) ==
    LET env == parameterized_environment(SeqToSet(item_keys(p)), sig, fail = "environment")
        ran == env.log \o [i \in 1 .. Len(reps) |-> Ev("reporter", i)]
                   \o <<Ev("run", phases)>>
                   \o run_events(env.hooks, env.envs, 1, phases)
    IN  IF env.error # "none"
        THEN [log |-> env.log, error |-> env.error, report |-> p]
        ELSE IF fail = "prerun"
        THEN [log |-> env.log \o <<Ev("prerun", 0)>>, error |-> "Exception", report |-> p]
        ELSE IF fail = "reporter" /\ reps # <<>>
        THEN [log |-> env.log \o <<Ev("reporter", 1)>>, error |-> "Exception", report |-> p]
        ELSE IF fail = "command"
        THEN [log |-> env.log \o <<Ev("command", 0)>>, error |-> "KeyError", report |-> p]
        ELSE [log |-> ran, error |-> "none", report |-> report_reporters(p, reps, env.log)]

\* the body of the with statement of run (lines 386-400)
run_body(p, sig, reps, fail, phases) ==
    LET env == parameterized_environment(SeqToSet(item_keys(p)), sig, fail = "environment")
        ran == env.log \o <<Ev("run", phases)>>
                   \o run_events(env.hooks, env.envs, 1, phases)
    IN  IF env.error # "none"
        THEN [log |-> env.log, error |-> env.error, report |-> p]
        ELSE IF fail = "prerun"
        THEN [log |-> env.log \o <<Ev("prerun", 0)>>, error |-> "Exception", report |-> p]
        ELSE IF fail = "command"
        THEN [log |-> env.log \o <<Ev("command", 0)>>, error |-> "KeyError", report |-> p]
        ELSE IF fail = "reporter" /\ reps # <<>>
        THEN [log |-> ran \o <<Ev("reporter", 1)>>, error |-> "Exception", report |-> p]
        ELSE [log |-> ran \o [i \in 1 .. Len(reps) |-> Ev("reporter", i)],
              error |-> "none", report |-> report_reporters(p, reps, ran)]

\* run without the with statement: the session is never closed
run_keeps_session(p, sig, reps, fail, phases) ==
    LET body == run_body(p, sig, reps, fail, phases)
    IN  IF fail = "kernel"
        THEN [log |-> <<>>, error |-> "RuntimeError", row |-> <<>>,
              kernels |-> 0, agents |-> 0]
        ELSE IF fail = "agent"
        THEN [log |-> <<Ev("CreateKernel", 0)>>, error |-> "RuntimeError", row |-> <<>>,
              kernels |-> 1, agents |-> 0]
        ELSE [log |-> <<Ev("CreateKernel", 0), Ev("CreateAgent", 0)>> \o body.log
                          \o (IF body.error = "none" THEN <<Ev("print", 0)>> ELSE <<>>),
              error |-> body.error,
              row |-> IF body.error = "none" THEN body.report ELSE <<>>,
              kernels |-> 1, agents |-> 1]

\* SoarExperiment.run (lines 382-401) inside create_agent (lines 163-172): the
\* kernel and the agent are created before the try statement, the body runs,
\* the finally clause destroys the agent and shuts the kernel down, and the
\* report is printed when nothing was raised.  kernels and agents count what
\* the call leaves alive.
run(p, sig, reps, fail, phases) ==
    LET body == run_body(p, sig, reps, fail, phases)
    IN  IF fail = "kernel"
        THEN [log |-> <<>>, error |-> "RuntimeError", row |-> <<>>,
              kernels |-> 0, agents |-> 0]
        ELSE IF fail = "agent"
        THEN [log |-> <<Ev("CreateKernel", 0)>>, error |-> "RuntimeError", row |-> <<>>,
              kernels |-> 1, agents |-> 0]
        ELSE [log |-> <<Ev("CreateKernel", 0), Ev("CreateAgent", 0)>> \o body.log
                          \o <<Ev("DestroyAgent", 0), Ev("Shutdown", 0)>>
                          \o (IF body.error = "none" THEN <<Ev("print", 0)>> ELSE <<>>),
              error |-> body.error,
              row |-> IF body.error = "none" THEN body.report ELSE <<>>,
              kernels |-> 0, agents |-> 0]

\* line 379: the required arguments that are no key of the configuration
missing_arguments(sig, p) ==
    SeqToSet(positional_arguments(sig)) \ SeqToSet(item_keys(p))

\* SoarExperiment.__init__ (lines 359-367) with its parameter space: nothing
\* is run yet
InitRun ==
    /\ StoreInit /\ IntakeInit /\ UpdateInit /\ TickerIdle
    /\ parameter_space \in RunSpaces
    /\ filters \in {{}, {"has_zero"}}
    /\ dependent_functions \in {<<>>, <<[name |-> Name_c, fn |-> "count"]>>}
    /\ perms = <<>>
    /\ psOp = "init"
    /\ environment_class \in EnvironmentClasses
    /\ reporters \in ReporterSeqs
    /\ runState = "idle"
    /\ sweeps = 0
    /\ report_ordering = <<>>
    /\ pending = <<>>
    /\ rows = <<>>
    /\ lastRun = NoRun
    /\ kernelsLive = 0
    /\ agentsLive = 0
    /\ overridden = {}

\* the ParameterSpace object as the value of its three attributes
Space(ps, fs, deps) == [parameter_space |-> ps, filters |-> fs, dependent_functions |-> deps]

\* ParameterSpace.clone (lines 303-304): deepcopy makes a second object with
\* the same entries, filters and dependent functions
clone(space) == space

\* lines 375-376 without the clone: fix_parameters is called on the
\* experiment's own space
run_with_fix_in_place(space, updates) ==
    LET fixed == [space EXCEPT !.parameter_space = fix_all(space.parameter_space, updates)]
    IN  [own |-> fixed, enumerated |-> fixed]

\* lines 375-376: the experiment's space is cloned and fix_parameters is
\* called on the clone.  own is the experiment's space after the two lines,
\* enumerated the space the loop of line 378 enumerates.
run_with_fix(space, updates) ==
    LET copy == clone(space)
    IN  [own |-> space,
         enumerated |-> [copy EXCEPT !.parameter_space = fix_all(copy.parameter_space, updates)]]

\* the configurations of a space as line 378 takes them, each as its items
enumeration(space) ==
    LET keys == config_keys(space.parameter_space, space.dependent_functions)
        cfgs == permutations(space.parameter_space, space.dependent_functions, space.filters)
    IN  [k \in 1 .. Len(cfgs) |-> items(cfgs[k], keys)]

\* SoarExperiment.run_with(**updates) up to the loop (lines 375-378): the
\* space is cloned, the clone is fixed, the report ordering is computed and
\* the enumeration of the clone begins
RunWith(updates) ==
    LET s == run_with_fix(Space(parameter_space, filters, dependent_functions), updates)
        cfgs == enumeration(s.enumerated)
    IN  /\ runState # "sweeping"
        /\ sweeps < MaxSweeps
        /\ sweeps' = sweeps + 1
        /\ parameter_space' = s.own.parameter_space
        /\ filters' = s.own.filters
        /\ dependent_functions' = s.own.dependent_functions
        /\ overridden' = overridden \cup {updates[i].name : i \in 1 .. Len(updates)}
        /\ report_ordering' = compute_report_ordering(s.enumerated.parameter_space,
                                                      s.enumerated.dependent_functions,
                                                      reporters)
        /\ pending' = cfgs
        /\ rows' = <<>>
        /\ lastRun' = NoRun
        /\ runState' = IF cfgs = <<>> THEN "done" ELSE "sweeping"
        /\ UNCHANGED <<environment_class, reporters, kernelsLive, agentsLive,
                       perms, psOp, storeVars, intakeVars, updateVars, tickerVars>>

\* the loop of run_with with every exception of a pass caught: the sweep goes
\* on to the next configuration
RunNext_goes_on(fail, phases) ==
    LET p == Head(pending)
        r == run(p, environment_class, reporters, fail, phases)
    IN  /\ runState = "sweeping"
        /\ pending # <<>>
        /\ pending' = Tail(pending)
        /\ IF Cardinality(missing_arguments(environment_class, p)) # 1
           THEN /\ lastRun' = [cfg |-> p, log |-> <<>>, error |-> "AssertionError",
                               phases |-> 0]
                /\ runState' = IF Tail(pending) = <<>> THEN "done" ELSE "sweeping"
                /\ UNCHANGED <<rows, kernelsLive, agentsLive>>
           ELSE /\ lastRun' = [cfg |-> p, log |-> r.log, error |-> r.error,
                               phases |-> IF r.error = "none" THEN phases ELSE 0]
                /\ rows' = IF r.error = "none" THEN Append(rows, r.row) ELSE rows
                /\ kernelsLive' = kernelsLive + r.kernels
                /\ agentsLive' = agentsLive + r.agents
                /\ runState' = IF Tail(pending) = <<>> THEN "done" ELSE "sweeping"
        /\ UNCHANGED <<environment_class, reporters, sweeps, report_ordering,
                       overridden, storeVars, intakeVars, updateVars, spaceVars,
                       tickerVars>>

\* one pass of the loop of run_with (lines 378-381): the arguments are
\* checked and the configuration is run; an exception ends run_with
RunNext(fail, phases) ==
    LET p == Head(pending)
        r == run(p, environment_class, reporters, fail, phases)
    IN  /\ runState = "sweeping"
        /\ pending # <<>>
        /\ pending' = Tail(pending)
        /\ IF Cardinality(missing_arguments(environment_class, p)) # 1
           THEN /\ lastRun' = [cfg |-> p, log |-> <<>>, error |-> "AssertionError",
                               phases |-> 0]
                /\ runState' = "failed"
                /\ UNCHANGED <<rows, kernelsLive, agentsLive>>
           ELSE /\ lastRun' = [cfg |-> p, log |-> r.log, error |-> r.error,
                               phases |-> IF r.error = "none" THEN phases ELSE 0]
                /\ rows' = IF r.error = "none" THEN Append(rows, r.row) ELSE rows
                /\ kernelsLive' = kernelsLive + r.kernels
                /\ agentsLive' = agentsLive + r.agents
                /\ runState' = IF r.error # "none" THEN "failed"
                               ELSE IF Tail(pending) = <<>> THEN "done"
                               ELSE "sweeping"
        /\ UNCHANGED <<environment_class, reporters, sweeps, report_ordering,
                       overridden, storeVars, intakeVars, updateVars, spaceVars,
                       tickerVars>>

\* the output phases a pass can reach: a pass that fails before the run
\* command (line 397) reaches none
PhasesReached(fail) ==
    IF fail \in {"none", "reporter"} THEN 0 .. MaxPhases ELSE {0}

NextRun ==
    \/ \E updates \in Updates : RunWith(updates)
    \/ \E fail \in Failures : \E phases \in PhasesReached(fail) : RunNext(fail, phases)

SpecRun == InitRun /\ [][NextRun]_vars

\* -------------------------------------------------------------- the Ticker

\* the input link, as the parent of the time element
InputLink == "I1"

\* what the agent puts on the output link: a command node has a name (the
\* attribute it hangs on) and arguments, of which only message is looked at
CommandKinds ==
    { [name |-> "print", message |-> TRUE],
      [name |-> "print", message |-> FALSE],
      [name |-> "move", message |-> TRUE] }

\* lines 279-283: the status a command is given
status_of(node) ==
    IF node.name = "print" /\ node.message THEN "complete" ELSE "error"

\* Ticker.initialize_io (lines 274-275)
Ticker_initialize_io(w, t, h) == add_wme(w, InputLink, "time", <<t>>, h)

\* update_io without the processed set: every child of the output link is
\* handled in every callback
Ticker_update_io_every_child(w, t, exists, kids, proc, nd, h) ==
    LET removed == del_wme(w, InputLink, "time", <<t>>)
        added == add_wme(removed.store, InputLink, "time", <<t + 1>>, h)
    IN  [commands |-> SeqToSet(kids),
         processed |-> proc \cup SeqToSet(kids),
         status |-> [c \in SeqToSet(kids) |-> status_of(nd[c])],
         destroyed |-> removed.destroyed,
         time |-> t + 1,
         store |-> added.store]

\* Ticker.update_io (lines 276-286): the new commands are drained and each is
\* given its status, the time element is removed, time is advanced and the
\* new time element is added (with handle h)
Ticker_update_io(w, t, exists, kids, proc, nd, h) ==
    LET drained == parse_output_commands(exists, kids, proc)
        removed == del_wme(w, InputLink, "time", <<t>>)
        added == add_wme(removed.store, InputLink, "time", <<t + 1>>, h)
    IN  [commands |-> drained.commands,
         processed |-> drained.processed,
         status |-> [c \in drained.commands |-> status_of(nd[c])],
         destroyed |-> removed.destroyed,
         time |-> t + 1,
         store |-> added.store]

\* Ticker.__init__ (lines 271-273): a SoarEnvironment with time = 0; the agent
\* has put nothing on the output link yet
InitTicker ==
    /\ StoreInit /\ IntakeInit /\ UpdateInit /\ SpaceIdle /\ RunIdle
    /\ time = 0
    /\ nodes = <<>>
    /\ statuses = <<>>

\* the agent attaches a new command node of the given kind, with a fresh time
\* tag, to the output link
TickerAddCommand(kind) ==
    /\ tagsIssued < MaxCommands
    /\ tagsIssued' = tagsIssued + 1
    /\ olExists' = TRUE
    /\ olChildren' = Append(olChildren, tagsIssued + 1)
    /\ addedSince' = addedSince \cup {tagsIssued + 1}
    /\ intakeOp' = "add"
    /\ nodes' = Append(nodes, kind)
    /\ statuses' = Append(statuses, <<>>)
    /\ UNCHANGED <<processed, lastReturned, returnedEver, time, storeVars, updateVars,
                   spaceVars, runVars>>

\* the engine completes an output phase and invokes SoarEnvironment.update on
\* the Ticker (lines 262-268): initialize_io in the first invocation,
\* update_io, then Commit.  ok is what the external DestroyWME reports for
\* the old time element (del_wme does not read it).
TickerUpdate(ok) ==
    LET u == update(io_initialized, invocations + 1, "ok", "ok")
        h0 == Len(createLog) + 1
        first == ~io_initialized
        w1 == IF first THEN Ticker_initialize_io(wmes, time, h0).store ELSE wmes
        log1 == IF first THEN Append(createLog, <<InputLink, "time", <<time>>>>)
                ELSE createLog
        live1 == IF first THEN extLive \cup {h0} ELSE extLive
        h == Len(log1) + 1
        r == Ticker_update_io(w1, time, olExists, olChildren, processed, nodes, h)
        gone == {r.destroyed[i] : i \in 1 .. Len(r.destroyed)}
    IN  /\ invocations < MaxTicks
        /\ (Len(r.destroyed) = 0) => ok
        /\ invocations' = invocations + 1
        /\ io_initialized' = u.io_initialized
        /\ callLog' = callLog \o u.calls
        /\ processed' = r.processed
        /\ lastReturned' = r.commands
        /\ returnedEver' = returnedEver \cup lastReturned
        /\ addedSince' = {}
        /\ intakeOp' = "parse"
        /\ statuses' = [c \in 1 .. Len(statuses) |->
                           IF c \in r.commands
                           THEN Append(statuses[c], r.status[c])
                           ELSE statuses[c]]
        /\ wmes' = r.store
        /\ time' = r.time
        /\ createLog' = Append(log1, <<InputLink, "time", <<r.time>>>>)
        /\ destroyLog' = destroyLog \o r.destroyed
        /\ extLive' = (IF ok THEN live1 \ gone ELSE live1) \cup {h}
        /\ lastOp' = [op |-> "add", p |-> InputLink, a |-> "time", c |-> <<r.time>>,
                      result |-> "wme", destroyOk |-> TRUE]
        /\ UNCHANGED <<olExists, olChildren, tagsIssued, nodes, spaceVars, runVars>>

NextTicker ==
    \/ \E kind \in CommandKinds : TickerAddCommand(kind)
    \/ \E i \in 1 .. Len(olChildren) : ExtRemoveCommand(i)
    \/ \E ok \in BOOLEAN : TickerUpdate(ok)

SpecTicker == InitTicker /\ [][NextTicker]_vars

\* ----------------------------------------------------- claims: the store

Created == 1 .. Len(createLog)

SupportedChildren == {None} \cup ScalarChildren

\* C1: every handle del_wme passes to the external destroy was returned by an
\* earlier external create of this store, and no handle is passed twice.
C1_DestroyOnlyCreatedOnce ==
    \A i \in 1 .. Len(destroyLog) :
        /\ destroyLog[i] \in Created
        /\ \A j \in 1 .. Len(destroyLog) : i # j => destroyLog[i] # destroyLog[j]

\* C1 witness: del_wme has issued two destroys, the last of them just now
C1_TwoDestroys ==
    /\ lastOp.op = "del"
    /\ lastOp.result = "True"
    /\ Len(destroyLog) = 2

\* C2: the shadow store never tracks a handle that does not exist
\* externally, and del_wme prunes an entry only when the external destroy
\* for it succeeded (a destroy that reports failure keeps the entry).
C2_ConservativeSubset ==
    /\ Tracked(wmes) \subseteq extLive
    /\ (lastOp.op = "del" /\ ~lastOp.destroyOk)
           => ~del_wme_unknown(wmes, lastOp.p, lastOp.a, lastOp.c)

NoEmptyMaps(w) ==
    \A p \in DOMAIN w :
        /\ DOMAIN w[p] # {}
        /\ \A a \in DOMAIN w[p] : DOMAIN w[p][a] # {}

\* C3: add_wme of a triple (child None included) on the empty store followed
\* by del_wme of the same triple returns true and leaves the store empty;
\* and successful adds and removes never leave an empty attribute map or
\* parent map behind.
C3_AddThenDelIsEmpty ==
    [][ /\ \A s \in Slots, c \in SupportedChildren :
              ( /\ \E h \in 1 .. (MaxCreates + 1) :
                       wmes = add_wme_store(EmptyDict, s[1], s[2], c, h)
                /\ lastOp'.op = "del"
                /\ <<lastOp'.p, lastOp'.a, lastOp'.c>> = <<s[1], s[2], c>> )
              => (lastOp'.result = "True" /\ wmes' = EmptyDict)
        /\ (NoEmptyMaps(wmes) /\ lastOp'.result \in {"wme", "True"})
              => NoEmptyMaps(wmes')
      ]_vars

\* C4: add_wme of a non-None child whose value is already tracked under
\* (parent, attribute) fails with DuplicateAttachmentError, issues no
\* external create and leaves the store unchanged.
C4_DuplicateRejected ==
    [][ ( /\ lastOp'.op = "add"
          /\ lastOp'.c # None
          /\ ~del_wme_unknown(wmes, lastOp'.p, lastOp'.a, lastOp'.c) )
        => ( /\ lastOp'.result = "DuplicateAttachmentError"
             /\ createLog' = createLog
             /\ wmes' = wmes )
      ]_vars

\* C5: after k calls add_wme(parent, attr, None) the set tracked under
\* (parent, attr, None) holds all k handles the external creates returned.
C5_IdentifierSetKeepsAll ==
    \A s \in Slots :
        LET hs == { h \in Created : /\ createLog[h] = <<s[1], s[2], None>>
                                    /\ \A i \in 1 .. Len(destroyLog) : destroyLog[i] # h }
        IN  hs # {} =>
                /\ ~del_wme_unknown(wmes, s[1], s[2], None)
                /\ hs \subseteq wmes[s[1]][s[2]][None]

\* C6: del_wme of a triple unknown to the store returns false, issues no
\* external destroy and leaves the store unchanged.
C6_UnknownDelIsNoOp ==
    [][ ( /\ lastOp'.op = "del"
          /\ del_wme_unknown(wmes, lastOp'.p, lastOp'.a, lastOp'.c) )
        => ( /\ lastOp'.result = "False"
             /\ destroyLog' = destroyLog
             /\ extLive' = extLive
             /\ wmes' = wmes )
      ]_vars

\* C6 witness: a del_wme of an untracked child under a tracked attribute of a
\* non-empty store has returned false
C6_UnknownChildDel ==
    /\ lastOp.op = "del"
    /\ lastOp.result = "False"
    /\ lastOp.p \in DOMAIN wmes
    /\ lastOp.a \in DOMAIN wmes[lastOp.p]
    /\ lastOp.c \notin DOMAIN wmes[lastOp.p][lastOp.a]
    /\ Tracked(wmes) # {}

\* --------------------------------------------------- claims: the callback

CallsOf(callee) == {i \in 1 .. Len(callLog) : callLog[i].call = callee}

CallsIn(inv, callee) == {i \in CallsOf(callee) : callLog[i].inv = inv}

NoHookRaised == \A i \in 1 .. Len(callLog) : callLog[i].out = "ok"

\* C8: with hooks that return, initialize_io is called exactly once, in the
\* first invocation and before the first update_io; update_io is called
\* exactly once in every invocation; io_initialized never goes back to false.
C8_InitOnceUpdateEach ==
    /\ [](NoHookRaised =>
            /\ invocations >= 1 =>
                 /\ Cardinality(CallsOf("initialize_io")) = 1
                 /\ \A i \in CallsOf("initialize_io") :
                        /\ callLog[i].inv = 1
                        /\ \A j \in CallsOf("update_io") : i < j
            /\ invocations = 0 => callLog = <<>>
            /\ \A inv \in 1 .. invocations : Cardinality(CallsIn(inv, "update_io")) = 1)
    /\ [][io_initialized => io_initialized']_vars

\* C8 witness: three invocations have completed and no hook raised
C8_ThreeInvocations ==
    /\ invocations = 3
    /\ NoHookRaised
    /\ io_initialized
    /\ Cardinality(CallsOf("Commit")) = 3

\* C9: once initialize_io or update_io has raised inside the callback, no
\* later invocation calls initialize_io or update_io.
C9_NoRetryAfterRaise ==
    \A i \in 1 .. Len(callLog) :
        callLog[i].out = "raise" =>
            \A j \in 1 .. Len(callLog) : callLog[j].inv <= callLog[i].inv

\* ------------------------------------------------ claims: ParameterSpace

DeclaredNames == SeqToSet(ps_keys(parameter_space))

\* the place of a declared name among the declared names in lexical order
Rank(n) == Cardinality({m \in DeclaredNames : LexLess(m, n)}) + 1

KeyAt(r) == CHOOSE n \in DeclaredNames : Rank(n) = r

DomainSize(n) == Len(get_parameter_values(parameter_space, n))

\* the product of the domain sizes of the keys of rank r and above
RECURSIVE SizeFrom(_)
SizeFrom(r) ==
    IF r > Cardinality(DeclaredNames) THEN 1 ELSE DomainSize(KeyAt(r)) * SizeFrom(r + 1)

\* the value of declared name n in the k-th combination of the cross product
\* in which the last sorted key varies fastest
CrossProductValue(k, n) ==
    get_parameter_values(parameter_space, n)
        [(((k - 1) \div SizeFrom(Rank(n) + 1)) % DomainSize(n)) + 1]

InCrossProductOrder(names) ==
    \A k \in 1 .. Len(perms) : \A n \in names : perms[k][n] = CrossProductValue(k, n)

PairwiseDistinct(q) == \A i, j \in 1 .. Len(q) : i # j => q[i] # q[j]

NoRepeatedValue ==
    \A n \in DeclaredNames :
        LET d == get_parameter_values(parameter_space, n)
        IN  \A i, j \in 1 .. Len(d) : i # j => d[i] # d[j]

OverriddenNames ==
    {dependent_functions[i].name : i \in 1 .. Len(dependent_functions)} \cap DeclaredNames

\* C10 as stated: with no filters permutations() yields exactly the product
\* of the domain sizes many configurations, each a distinct combination, in
\* the cross-product order over the sorted names (last key fastest).
C10_ProductDistinctOrdered ==
    (psOp = "permutations" /\ filters = {}) =>
        /\ Len(perms) = SizeFrom(1)
        /\ PairwiseDistinct(perms)
        /\ InCrossProductOrder(DeclaredNames)

\* C10 amended: with no filters permutations() yields exactly the product of
\* the domain sizes many configurations, in the cross-product order over the
\* sorted names (last key fastest) for every declared name that no dependent
\* parameter overrides; they are pairwise distinct when no domain lists a
\* value twice and no dependent parameter has a declared name.
C10_ProductOrdered ==
    (psOp = "permutations" /\ filters = {}) =>
        /\ Len(perms) = SizeFrom(1)
        /\ InCrossProductOrder(DeclaredNames \ OverriddenNames)
        /\ (NoRepeatedValue /\ OverriddenNames = {}) => PairwiseDistinct(perms)

\* C10 witness: three parameters declared out of lexical order, with domains
\* of sizes 1, 2 and 3 that repeat no value, enumerated without filters
C10_SixConfigurations ==
    /\ psOp = "permutations"
    /\ filters = {}
    /\ Len(parameter_space) = 3
    /\ ps_keys(parameter_space) # sorted_keys(ps_keys(parameter_space))
    /\ NoRepeatedValue
    /\ OverriddenNames = {}
    /\ Len(perms) = 6
    /\ DomainSize(KeyAt(1)) = 2
    /\ DomainSize(KeyAt(2)) = 3

\* the candidate configurations: what permutations() builds before any filter
\* is asked
Candidates == permutations(parameter_space, dependent_functions, {})

RegisteredDependents ==
    {dependent_functions[i].name : i \in 1 .. Len(dependent_functions)}

\* C11: permutations() yields exactly the candidates for which every
\* registered filter returns true, in the candidates' order; every filter is
\* asked about a candidate that has all declared and all dependent values set;
\* with a filter that always returns false nothing is yielded.
C11_FiltersConjoined ==
    psOp = "permutations" =>
        /\ perms = SelectSeq(Candidates, LAMBDA p : \A f \in filters : filter_value(f, p))
        /\ \A k \in 1 .. Len(perms) :
               DOMAIN perms[k] = DeclaredNames \cup RegisteredDependents
        /\ "never" \in filters => perms = <<>>

\* C11 witness: an enumeration under a filter that reads the values, with a
\* dependent parameter registered, has kept some candidates and dropped others
C11_SomeFilteredOut ==
    /\ psOp = "permutations"
    /\ filters = {"has_zero"}
    /\ dependent_functions # <<>>
    /\ Len(perms) > 0
    /\ Len(perms) < Len(Candidates)

\* a string value that still holds a placeholder
HasPlaceholder(v) == \E i \in 1 .. Len(v) : v[i] < 0

\* C12: permutations() ends either with every placeholder of the string
\* values substituted or with an unresolvable-template error; no yielded
\* configuration holds a value with a placeholder left in it.
C12_NoPlaceholderYielded ==
    psOp \in {"permutations", "UnresolvableTemplateError"} =>
        \A k \in 1 .. Len(perms) :
            \A n \in DOMAIN perms[k] : ~HasPlaceholder(perms[k][n])

\* C13: declaring an empty domain fails with ConfigurationError, so every
\* declared name of a ParameterSpace has a non-empty domain.
C13_NoEmptyDomain ==
    \A n \in DeclaredNames : DomainSize(n) >= 1

\* the space after fix_parameters(n=raw), and after the same call made again
\* with the same object
FixedOnce(n, raw) == fix_parameters(parameter_space, n, raw)

FixedTwice(n, raw) == fix_parameters(FixedOnce(n, raw), n, consumed(raw))

\* fix_parameters(n=raw) twice gives the domains that one call gives (and
\* with them, the filters and dependent functions being untouched by the
\* call, the same enumeration); after fix_parameters(n=v) with a single value
\* v, n is a constant parameter and not a variable one.  kinds tells the
\* overrides the first half is stated for.
IdempotentAndReclassified(kinds) ==
    \A n \in Names, raw \in RawValues :
        LET once == FixedOnce(n, raw)
        IN  /\ raw.kind \in kinds => fix_parameters(once, n, consumed(raw)) = once
            /\ raw.kind = "scalar" =>
                   /\ n \in SeqToSet(constant_parameters(once))
                   /\ n \notin SeqToSet(variable_parameters(once))

\* C14 as stated: fix_parameters applied twice with the same overrides leaves
\* what one application leaves, and a name fixed to a single value is at once
\* a constant parameter, whatever it was before.  (Stated of every space the
\* constructor or an earlier fix_parameters has left.)
C14_FixIdempotent ==
    psOp \in {"init", "fix_parameters"} =>
        IdempotentAndReclassified({"scalar", "tuple", "list", "range", "generator"})

\* C14 amended: the same, for overrides that are not generator objects (a
\* generator is run to its end by the first application).
C14_FixIdempotentValues ==
    psOp \in {"init", "fix_parameters"} =>
        IdempotentAndReclassified({"scalar", "tuple", "list", "range"})

\* C14 witness: fix_parameters has just made a declared name constant in a
\* space that still has a variable parameter, and the same call made again
\* would change nothing
C14_FixedToConstant ==
    /\ psOp = "fix_parameters"
    /\ variable_parameters(parameter_space) # <<>>
    /\ \E n \in SeqToSet(constant_parameters(parameter_space)) :
           \E raw \in RawValues :
               /\ raw.kind = "scalar"
               /\ FixedOnce(n, raw) = parameter_space
               /\ FixedTwice(n, raw) = parameter_space

\* ------------------------------------------- claims: the experiment runner

\* the events of a log that have the given name
EventsOf(log, e) == {i \in 1 .. Len(log) : log[i].ev = e}

\* a pass of the loop of run_with has been made
PassMade == lastRun # NoRun

\* the required arguments of the environment class other than agent
RequiredOfConfiguration ==
    SeqToSet(positional_arguments(environment_class)) \ {Name_agent}

\* C15: a pass of run_with fails on its assertion, before any session is
\* opened, exactly when some required argument of the environment class other
\* than agent is no key of the configuration, whatever keys the configuration
\* has (a key named agent included).
C15_FailsIffArgumentMissing ==
    PassMade =>
        ( (lastRun.error = "AssertionError" /\ lastRun.log = <<>>)
            <=> ~(RequiredOfConfiguration \subseteq SeqToSet(item_keys(lastRun.cfg))) )

\* C16: when control has left a run, every kernel that was created has been
\* shut down and every agent that was created has been destroyed, on every
\* exit path.
C16_SessionTornDown ==
    /\ kernelsLive = 0
    /\ agentsLive = 0
    /\ Cardinality(EventsOf(lastRun.log, "CreateKernel"))
           = Cardinality(EventsOf(lastRun.log, "Shutdown"))
    /\ Cardinality(EventsOf(lastRun.log, "CreateAgent"))
           = Cardinality(EventsOf(lastRun.log, "DestroyAgent"))

\* the hooks a log leaves registered
RegisteredHooks(log) ==
    {log[i].n : i \in EventsOf(log, "register")}
        \ {log[i].n : i \in EventsOf(log, "unregister")}

\* the number of output phases of the run command of a log
PhasesOf(log) == log[CHOOSE j \in EventsOf(log, "run") : TRUE].n

\* C17: once the runner has built the wrapper around an environment instance
\* only the wrapper's hook is registered, the instance's being unregistered
\* before the agent runs; over the output phases of the run the instance's
\* initialize_io is called exactly once (in the first phase) and its update_io
\* exactly once in every phase.
C17_OneHookDrivesInstance ==
    LET log == lastRun.log
    IN  EventsOf(log, "run") # {} =>
            /\ RegisteredHooks(log) = {1}
            /\ \A i \in EventsOf(log, "unregister"), j \in EventsOf(log, "run") : i < j
            /\ Cardinality(EventsOf(log, "initialize_io"))
                   = (IF PhasesOf(log) >= 1 THEN 1 ELSE 0)
            /\ \A i \in EventsOf(log, "initialize_io") : log[i].n = 1
            /\ \A i \in EventsOf(log, "update_io") : log[i].n \in 1 .. PhasesOf(log)
            /\ \A ph \in 1 .. PhasesOf(log) :
                   Cardinality({i \in EventsOf(log, "update_io") : log[i].n = ph}) = 1

\* C17 witness: a configuration has been run to the end over two or more
\* output phases
C17_RunOfTwoPhases ==
    /\ lastRun.error = "none"
    /\ lastRun.phases >= 2
    /\ Cardinality(EventsOf(lastRun.log, "update_io")) >= 2

\* every kernel and agent a log creates is shut down or destroyed later in it
SessionClosed(log) ==
    /\ \A i \in EventsOf(log, "CreateKernel") :
           \E j \in EventsOf(log, "Shutdown") : i < j
    /\ \A i \in EventsOf(log, "CreateAgent") :
           \E j \in EventsOf(log, "DestroyAgent") : i < j

\* a log opens at most one session
OneSession(log) ==
    /\ Cardinality(EventsOf(log, "CreateKernel")) <= 1
    /\ Cardinality(EventsOf(log, "CreateAgent")) <= 1

\* the environment of a log is built on the session of that log and starts
\* uninitialized: its hook is registered after the agent was created, and a
\* first output phase calls initialize_io before update_io
FreshEnvironment(log) ==
    /\ \A i \in EventsOf(log, "register") :
           \E j \in EventsOf(log, "CreateAgent") : j < i
    /\ \A i \in EventsOf(log, "update_io") :
           \E j \in EventsOf(log, "initialize_io") : j < i

\* a pass of the loop of run_with is taken in this step
PassTaken == runState = "sweeping" /\ pending # <<>> /\ pending' = Tail(pending)

\* C18: in a sweep every pass opens at most one session, on which its own
\* new environment is built, and the session of the pass before it is closed
\* (agent destroyed, kernel shut down) before the pass begins.
C18_SessionsDoNotOverlap ==
    [][ PassTaken =>
            /\ SessionClosed(lastRun.log)
            /\ OneSession(lastRun'.log)
            /\ FreshEnvironment(lastRun'.log)
            /\ (runState' # "failed" => SessionClosed(lastRun'.log))
      ]_vars

\* C18 witness: a second configuration of one sweep has been run to the end,
\* over at least one output phase
C18_SecondConfigurationRun ==
    /\ Len(rows) >= 2
    /\ lastRun.error = "none"
    /\ lastRun.phases >= 1
    /\ EventsOf(lastRun.log, "Shutdown") # {}

\* the row a pass has just printed
LastRow == rows'[Len(rows')]

\* a pass that succeeds prints one more row after the rows printed so far, a
\* pass that fails prints none, and a call of run_with starts with no row
RowPerPass ==
    /\ (PassTaken /\ lastRun'.error = "none") =>
           /\ Len(rows') = Len(rows) + 1
           /\ SubSeq(rows', 1, Len(rows)) = rows
    /\ (PassTaken /\ lastRun'.error # "none") => rows' = rows
    /\ sweeps' # sweeps => rows' = <<>>
    /\ runState' = "done" => pending' = <<>>

\* the row just printed has the keys of the configuration and the reporter
\* names, and for every reporter the value it returns once the run is over
RowReports ==
    /\ SeqToSet(item_keys(LastRow))
           = SeqToSet(item_keys(Head(pending))) \cup SeqToSet(reporters)
    /\ \A j \in 1 .. Len(reporters) :
           <<reporters[j], reporter_value(lastRun'.log)>> \in SeqToSet(LastRow)

\* C19 as stated: a sweep prints one row per configuration, in the order of
\* the enumeration, and each row holds every entry of its configuration and,
\* for every reporter, the value the reporter returned after the run.
C19_RowPerConfiguration ==
    [][ /\ RowPerPass
        /\ (PassTaken /\ lastRun'.error = "none") =>
               /\ RowReports
               /\ \A i \in 1 .. Len(Head(pending)) :
                      Head(pending)[i] \in SeqToSet(LastRow)
      ]_vars

\* C19 amended: the same, but a row holds the entries of its configuration
\* whose key is not the name of a reporter (a reporter with the name of a
\* parameter replaces that parameter's entry).
C19_RowPerConfigurationNoClash ==
    [][ /\ RowPerPass
        /\ (PassTaken /\ lastRun'.error = "none") =>
               /\ RowReports
               /\ \A i \in 1 .. Len(Head(pending)) :
                      Head(pending)[i][1] \notin SeqToSet(reporters)
                          => Head(pending)[i] \in SeqToSet(LastRow)
      ]_vars

\* C19 witness: a sweep over three configurations with two reporters is done
C19_ThreeRows ==
    /\ runState = "done"
    /\ Len(rows) = 3
    /\ Len(reporters) = 2
    /\ rows[1] # rows[2]

\* C20: every report row lists its keys in the order run_with computed:
\* variable parameters, dependent parameters, constant parameters, reporter
\* names, each group sorted.  (Stated where the computed order names every
\* key once: no reporter has the name of a parameter.)
C20_RowsInReportOrdering ==
    PairwiseDistinct(report_ordering) =>
        \A i \in 1 .. Len(rows) : item_keys(rows[i]) = report_ordering

\* a pass of the loop has just ended in an exception
PassFailed == PassTaken /\ lastRun'.error # "none"

\* C21: a fatal error in one pass of a sweep (the assertion on the required
\* arguments, the formatting of a command, the creation of the session, the
\* environment's constructor, a prerun procedure or a reporter) ends the
\* sweep: the failed pass prints no row, no pass is taken after a failed
\* pass, and from a failed sweep the only step is a new call of run_with.
C21_FatalErrorAbortsSweep ==
    [][ /\ (PassTaken => lastRun.error = "none")
        /\ (PassFailed => rows' = rows /\ runState' = "failed")
        /\ (runState = "failed" =>
                /\ sweeps' = sweeps + 1
                /\ lastRun.error # "none")
        /\ ((PassTaken /\ lastRun'.error = "AssertionError") =>
                EventsOf(lastRun'.log, "CreateKernel") = {})
      ]_vars

\* C21 witness: a sweep was ended by a reporter's exception in its second
\* pass, after one row, with a configuration still to be taken
C21_SweepAbortedMidway ==
    /\ runState = "failed"
    /\ Len(rows) = 1
    /\ pending # <<>>
    /\ lastRun.error = "Exception"
    /\ EventsOf(lastRun.log, "reporter") # {}

\* a call of run_with is made in this step
RunWithCalled == sweeps' = sweeps + 1

\* C24: a call of run_with leaves the experiment's own space as it was
\* (entries, filters and dependent functions), and the configurations it
\* takes are those of that space with this call's overrides alone, whatever
\* earlier calls were given.
C24_RunWithLeavesSpace ==
    [][ /\ parameter_space' = parameter_space
        /\ filters' = filters
        /\ dependent_functions' = dependent_functions
        /\ RunWithCalled =>
              \E updates \in Updates :
                 /\ overridden' = overridden \cup {updates[i].name : i \in 1 .. Len(updates)}
                 /\ pending' = enumeration(
                        Space(fix_all(parameter_space, updates), filters, dependent_functions))
      ]_vars

\* C24 witness: after a call that fixed a, a call without overrides takes the
\* three values the space declares for a
C24_LaterCallNotNarrowed ==
    /\ sweeps = 2
    /\ Name_a \in overridden
    /\ rows = <<>>
    /\ lastRun = NoRun
    /\ Len(pending) = 3
    /\ \A k \in 1 .. 3 : \E i \in 1 .. Len(pending[k]) : pending[k][i] = <<Name_a, k - 1>>

\* ---------------------------------------------------- claims: the Ticker

\* the children the shadow store tracks under the input link's time
TimeEntries ==
    IF InputLink \in DOMAIN wmes /\ "time" \in DOMAIN wmes[InputLink]
    THEN DOMAIN wmes[InputLink]["time"]
    ELSE {}

\* the time values the external input link carries
ExternalTimes ==
    {createLog[h][3] : h \in {x \in extLive : createLog[x][2] = "time"}}

\* update_io calls that returned
UpdateIoCompleted == {i \in CallsOf("update_io") : callLog[i].out = "ok"}

\* the shadow store's part of C22: one time entry, whose value is the number
\* of update_io calls completed
ShadowTimeTracksCalls ==
    invocations > 0 =>
        /\ TimeEntries = {<<time>>}
        /\ time = Cardinality(UpdateIoCompleted)
        /\ time = invocations

\* C22: at every commit of the Ticker's callback the shadow store tracks
\* exactly one time entry under the input link, its value is the number of
\* update_io calls completed so far (so each callback advances time by 1),
\* and the external input link carries no two different time values.
C22_OneTimeValueAtCommit ==
    /\ ShadowTimeTracksCalls
    /\ Cardinality(ExternalTimes) <= 1

\* the Ticker's callback runs in this step
CallbackRuns == invocations' = invocations + 1

\* C23: a command node is given at most one status over the whole session,
\* complete for a print with a message and error otherwise; a status once
\* attached stays the only one; and every node on the output link when a
\* callback runs has its status when the callback ends, so the status is
\* attached by the first callback that finds the node there.
C23_OneStatusPerCommand ==
    [][ /\ \A c \in 1 .. Len(statuses') :
              /\ Len(statuses'[c]) <= 1
              /\ statuses'[c] # <<>> => statuses'[c] = <<status_of(nodes'[c])>>
              /\ (c <= Len(statuses) /\ statuses[c] # <<>>) => statuses'[c] = statuses[c]
        /\ CallbackRuns =>
              \A c \in SeqToSet(olChildren) : Len(statuses'[c]) = 1
      ]_vars

\* C23 witness: a callback has just handled a new command while a print
\* command completed by an earlier callback is still on the output link, and
\* some command was given error
C23_CompletedCommandStays ==
    /\ intakeOp = "parse"
    /\ lastReturned # {}
    /\ \E c \in SeqToSet(olChildren) \ lastReturned : statuses[c] = <<"complete">>
    /\ \E c \in 1 .. Len(statuses) : statuses[c] = <<"error">>

====
